---- MODULE Spec2Model ----
(***************************************************************************)
(* Model of the deployment helper src/deploy.py: the command-line entry    *)
(* point main() and the AWSDeployer methods it calls, run against a remote  *)
(* CloudFormation service that is modelled by the status of each stack    *)
(* name.  One client runs the entry point MaxRuns times, one run after the  *)
(* other; the service moves in-flight stacks to a terminal status on its    *)
(* own.                                                                     *)
(* ConcSpec runs deploy_cloudformation_stack and                           *)
(* delete_cloudformation_stack in several processes at once against the    *)
(* same service; OpsSpec calls the operations of the example modules       *)
(* (src/01-compute .. src/06-integration) with an SDK call that answers or *)
(* fails.                                                                  *)
(* LambdaSpec, TaskSpec, Ec2Spec, VpcSpec, BucketSpec and FanoutSpec each   *)
(* run one example module step by step: lambda_handler and                 *)
(* long_running_task, the EC2Manager instance methods, add_route and       *)
(* create_nat_gateway, create_bucket, create_fanout_architecture.          *)
(***************************************************************************)
EXTENDS Naturals, Sequences, FiniteSets

VARIABLES
    status,       \* remote service: stack name -> status
    credsValid,   \* remote service: do the ambient credentials identify a caller
    calls,        \* the create/update/delete requests issued so far, in order
    runs,         \* number of runs of main() started
    pc,           \* position of the current run of main()
    act,          \* args.action of the current run
    name,         \* args.stack_name of the current run (NoName when not given)
    stack_exists, \* deploy_cloudformation_stack's local stack_exists
    waiter,       \* which waiter the method obtained
    polls,        \* describe_stacks calls made by the waiter in this run
    lastSeen,     \* status the waiter's last poll observed
    result,       \* what the AWSDeployer method of this run returned: "True", "False" or "none"
    exitCode,     \* exit status of the run
    listed,       \* value returned by list_stacks
    pre,          \* status of the named stack when the run first asked the service about it
    faulted,      \* a remote call of this run failed for a reason other than the stack's status
    base,         \* Len(calls) when the run started
    prev,         \* the run before, when it was a Deploy that found its stack absent
                  \* and had no failing call: its stack name and its base
    confirm,      \* what the run read from standard input at the prompt ("none": nothing)
    sdk,          \* the last call of an operation of the example modules and how it ended
    procs,        \* concurrent invocations of Deploy and Delete: process -> its state
    lam,          \* lambda_function.py: the current invocation of lambda_handler
    task,         \* lambda_function.py: the current run of long_running_task
    ec2,          \* ec2_management.py: the instance and the current EC2Manager call
    vpc,          \* vpc_setup.py: the account's network resources and the current VPCManager call
    bucket,       \* s3_operations.py: the bucket and the current create_bucket call
    fan           \* sqs_sns_example.py: topic, queues, subscriptions and the current call

vars == <<status, credsValid, calls, runs, pc, act, name, stack_exists, waiter,
          polls, lastSeen, result, exitCode, listed, pre, faulted, base, prev,
          confirm, sdk, procs, lam, task, ec2, vpc, bucket, fan>>

\* the state of the deploy helper, of its concurrent processes and of the table
\* of operations
deployer == <<status, credsValid, calls, runs, pc, act, name, stack_exists, waiter,
              polls, lastSeen, result, exitCode, listed, pre, faulted, base, prev,
              confirm, sdk, procs>>

\* the state of the example modules
examples == <<lam, task, ec2, vpc, bucket, fan>>

(* ------------------------------- bounds -------------------------------- *)

MaxRuns == 2        \* runs of main()
MaxAttempts == 2    \* polls a waiter makes before it gives up
PageSize == 1       \* stack summaries in one page of list_stacks

\* the stack names the service knows, and args.stack_name when none is given
Names == {"orders-stack", "other-stack"}
NoName == "none"

(* ------------------------- the remote service -------------------------- *)

Status == {"absent", "creating", "create_complete", "updating", "update_complete",
           "rollback_complete", "deleting", "delete_complete", "failed"}

\* describe_stacks by name answers "does not exist" for these
Gone == {"absent", "delete_complete"}

Complete == {"create_complete", "update_complete"}

InFlight == {"creating", "updating", "deleting"}

Terminal == Status \ InFlight

\* update_stack is accepted for a stack in one of these
Updatable == {"create_complete", "update_complete", "rollback_complete"}

\* where the service takes an in-flight stack on its own
Outcome(s) ==
    CASE s = "creating" -> {"create_complete", "rollback_complete", "failed"}
      [] s = "updating" -> {"update_complete", "rollback_complete", "failed"}
      [] s = "deleting" -> {"delete_complete", "failed"}
      [] OTHER -> {}

Progress(n) ==
    /\ status[n] \in InFlight
    /\ \E s \in Outcome(status[n]) : status' = [status EXCEPT ![n] = s]
    /\ UNCHANGED <<credsValid, calls, runs, pc, act, name, stack_exists, waiter,
                   polls, lastSeen, result, exitCode, listed, pre, faulted, base,
                   prev, confirm, sdk, procs, examples>>

\* a remote call fails whenever the credentials are invalid, and may fail anyway
Faults == IF credsValid THEN BOOLEAN ELSE {TRUE}

Call(op, n) == [op |-> op, name |-> n]

RunCalls == SubSeq(calls, base + 1, Len(calls))

(* ----------------------------- the waiters ----------------------------- *)

\* what one poll of the waiter makes of the status it observes
Acceptor(w, s) ==
    CASE w = "stack_create_complete" ->
            IF s = "create_complete" THEN "success"
            ELSE IF s \in {"failed", "rollback_complete"} \cup Gone THEN "failure"
            ELSE "retry"
      [] w = "stack_update_complete" ->
            IF s = "update_complete" THEN "success"
            ELSE IF s \in {"failed", "rollback_complete"} \cup Gone THEN "failure"
            ELSE "retry"
      [] w = "stack_delete_complete" ->
            IF s \in Gone THEN "success"
            ELSE IF s \in {"failed", "rollback_complete"} THEN "failure"
            ELSE "retry"
      [] OTHER -> "failure"

\* AttemptsLeft allowing one poll too many
AttemptsLeft_OneMore(n) == n <= MaxAttempts

\* AttemptsLeft giving up one poll early
AttemptsLeft_OneLess(n) == n + 1 < MaxAttempts

\* the waiter gives up after this many polls
AttemptsLeft(n) == n < MaxAttempts

(* ------------------------------- main() -------------------------------- *)

Actions == {"deploy", "delete", "list", "validate", "estimate"}

ConfirmInputs == {"yes", "YES", "no", ""}

\* str.lower() on the confirmation inputs
Lower(c) == IF c = "YES" THEN "yes" ELSE c

ParamArgs == {"none", "Key=Value", "Key"}

\* Finish that goes back to the request when the request raised
Finish_RetryRequest(r, c) ==
    /\ pc' = IF pc = "request" THEN "request" ELSE "done"
    /\ result' = r
    /\ exitCode' = c

\* the run ends: the method (if any) returned r and the process exits with code c
Finish(r, c) ==
    /\ pc' = "done"
    /\ result' = r
    /\ exitCode' = c

\* main(): the method returned r; exit with 1 unless it reports success
Return(r) == Finish(r, IF r = "True" THEN 0 ELSE 1)

\* DeployExcept reporting success
DeployExcept_True == "True"

\* deploy_cloudformation_stack: what the except branch returns
DeployExcept == "False"

\* DeleteExcept reporting success
DeleteExcept_True == "True"

\* delete_cloudformation_stack: what the except branch returns
DeleteExcept == "False"

\* the method of the current run raised: its except branch answers
Raised == Return(IF act = "delete" THEN DeleteExcept ELSE DeployExcept)

\* UpdateWaiter naming the create waiter
UpdateWaiter_Create == "stack_create_complete"

\* deploy_cloudformation_stack: the waiter of the update branch
UpdateWaiter == "stack_update_complete"

\* CreateWaiter naming the update waiter
CreateWaiter_Update == "stack_update_complete"

\* deploy_cloudformation_stack: the waiter of the create branch
CreateWaiter == "stack_create_complete"

\* DeleteWaiter naming the create waiter
DeleteWaiter_Create == "stack_create_complete"

\* delete_cloudformation_stack: the waiter
DeleteWaiter == "stack_delete_complete"

\* what prev holds when the run before was no such Deploy
NoRun == [name |-> NoName, base |-> 0]

\* sdk before any operation of the example modules was called
NoCall == [op |-> "none", err |-> "none", outcome |-> "none"]

\* the processes that invoke Deploy and Delete at the same time
Procs == {"p1", "p2"}

\* a process that has not invoked anything yet
Idle == [pc |-> "idle", op |-> "none", name |-> NoName, exists |-> FALSE,
         waiter |-> "none", polls |-> 0, req |-> "none", result |-> "none"]

\* lambda_function.py: an event without any of the keys lambda_handler looks at
NoEvent == [hasRecords |-> FALSE, records |-> <<>>, http |-> "absent", hasPath |-> FALSE,
            body |-> "absent", source |-> "absent"]

\* lambda_function.py: no invocation yet
LamIdle == [pc |-> "idle", event |-> NoEvent, request_id |-> FALSE, chosen |-> "none",
            i |-> 0, code |-> 0, raised |-> FALSE]

\* lambda_function.py: long_running_task not called yet
TaskIdle == [pc |-> "idle", clock |-> 0, time_remaining |-> 0, items_processed |-> 0,
             polls |-> 0, completed |-> FALSE]

\* ec2_management.py: no call yet
Ec2Idle == [state |-> "none", tagged |-> FALSE, pc |-> "idle", op |-> "none",
            wantTags |-> FALSE, requested |-> FALSE, polls |-> 0, seen |-> "none",
            result |-> "none"]

\* vpc_setup.py: no call yet
VpcIdle == [eips |-> 0, nats |-> 0, natCalls |-> 0, pc |-> "idle", op |-> "none",
            gateway_id |-> FALSE, nat_gateway_id |-> FALSE, instance_id |-> FALSE,
            sent |-> "none", err |-> "none", eips0 |-> 0, nats0 |-> 0,
            natState |-> "none", wantTags |-> FALSE, polls |-> 0, result |-> "none"]

\* s3_operations.py: no call yet
BucketIdle == [exists |-> FALSE, pc |-> "idle", region |-> "us-east-1",
               constraint |-> "none", enable_versioning |-> FALSE,
               enable_encryption |-> FALSE, block_public_access |-> FALSE,
               applied |-> <<>>, err |-> "none", result |-> "none"]

\* sqs_sns_example.py: no call yet
FanIdle == [pc |-> "idle", queue_names |-> <<>>, k |-> 0, step |-> 0, log |-> <<>>,
            queue_arns |-> <<>>, result |-> "none"]

\* before the first run the service holds each stack in any settled status: no
\* operation is in flight; the in-flight statuses are reached through the runs
InitStatus == Terminal

Init ==
    /\ status \in [Names -> InitStatus]
    /\ credsValid \in BOOLEAN
    /\ calls = <<>>
    /\ runs = 0
    /\ pc = "done"
    /\ act = "validate"
    /\ name = NoName
    /\ stack_exists = FALSE
    /\ waiter = "none"
    /\ polls = 0
    /\ lastSeen = "none"
    /\ result = "none"
    /\ exitCode = 0
    /\ listed = {}
    /\ pre = "none"
    /\ faulted = FALSE
    /\ base = 0
    /\ prev = NoRun
    /\ confirm = "none"
    /\ sdk = NoCall
    /\ procs = [p \in Procs |-> Idle]
    /\ lam = LamIdle
    /\ task = TaskIdle
    /\ ec2 = Ec2Idle
    /\ vpc = VpcIdle
    /\ bucket = BucketIdle
    /\ fan = FanIdle

\* main(): are the arguments the action needs given
ArgsOk(a, n, hasTemplate) ==
    CASE a = "estimate" -> hasTemplate
      [] a = "deploy" -> n /= NoName /\ hasTemplate
      [] a = "delete" -> n /= NoName
      [] OTHER -> TRUE

\* Entry with the list action taken into the delete branch
Entry_ListDeletes(a, n, hasTemplate) ==
    IF a = "list" /\ n /= NoName THEN "del_request"
    ELSE IF ~ArgsOk(a, n, hasTemplate) THEN "done"
    ELSE CASE a = "validate" -> "validate"
           [] a = "list" -> "list"
           [] a = "estimate" -> "done"
           [] a = "deploy" -> "validate"
           [] a = "delete" -> "confirm"

\* main(): where the if/elif chain on args.action takes the run first
Entry(a, n, hasTemplate) ==
    IF ~ArgsOk(a, n, hasTemplate) THEN "done"
    ELSE CASE a = "validate" -> "validate"
           [] a = "list" -> "list"
           [] a = "estimate" -> "done"
           [] a = "deploy" -> "validate"
           [] a = "delete" -> "confirm"

\* main(): parse the arguments, check them, and branch on the action
Start(a, n, hasTemplate) ==
    /\ pc = "done"
    /\ runs < MaxRuns
    /\ runs' = runs + 1
    /\ act' = a
    /\ name' = n
    /\ prev' = IF act = "deploy" /\ pre \in Gone /\ ~faulted
                THEN [name |-> name, base |-> base]
                ELSE NoRun
    /\ base' = Len(calls)
    /\ stack_exists' = FALSE
    /\ waiter' = "none"
    /\ polls' = 0
    /\ lastSeen' = "none"
    /\ listed' = {}
    /\ pre' = "none"
    /\ faulted' = FALSE
    /\ result' = "none"
    /\ pc' = Entry(a, n, hasTemplate)
    /\ exitCode' = IF ArgsOk(a, n, hasTemplate) THEN 0 ELSE 1
    /\ confirm' = "none"
    /\ UNCHANGED <<status, credsValid, calls, sdk, procs, examples>>

\* validate_credentials, and what main() does with its answer
ValidateCredentials ==
    /\ pc = "validate"
    /\ \E fault \in Faults :
         /\ faulted' = (faulted \/ fault)
         /\ IF fault
            THEN Return("False")
            ELSE IF act = "validate"
                 THEN Return("True")
                 ELSE pc' = "params" /\ UNCHANGED <<result, exitCode>>
    /\ UNCHANGED <<status, credsValid, calls, runs, act, name, stack_exists, waiter,
                   polls, lastSeen, listed, pre, base, prev, confirm, sdk, procs, examples>>

\* main(): the --param arguments are split at '='
ProcessParams ==
    /\ pc = "params"
    /\ \E p \in ParamArgs :
         IF p = "Key"
         THEN Finish("none", 1)
         ELSE pc' = "read_template" /\ UNCHANGED <<result, exitCode>>
    /\ UNCHANGED <<status, credsValid, calls, runs, act, name, stack_exists, waiter,
                   polls, lastSeen, listed, pre, faulted, base, prev, confirm, sdk, procs, examples>>

\* deploy_cloudformation_stack: read the template file
ReadTemplate ==
    /\ pc = "read_template"
    /\ \E readable \in BOOLEAN :
         IF readable
         THEN pc' = "lookup" /\ UNCHANGED <<result, exitCode>>
         ELSE Raised
    /\ UNCHANGED <<status, credsValid, calls, runs, act, name, stack_exists, waiter,
                   polls, lastSeen, listed, pre, faulted, base, prev, confirm, sdk, procs, examples>>

\* LookupExists that never finds the stack
LookupExists_Never(fault, s) == FALSE

\* deploy_cloudformation_stack: does the stack exist
LookupExists(fault, s) == ~fault /\ s \notin Gone

Lookup ==
    /\ pc = "lookup"
    /\ \E fault \in Faults :
         /\ faulted' = (faulted \/ fault)
         /\ stack_exists' = LookupExists(fault, status[name])
    /\ pre' = status[name]
    /\ pc' = "request"
    /\ UNCHANGED <<status, credsValid, calls, runs, act, name, waiter, polls,
                   lastSeen, result, exitCode, listed, base, prev, confirm, sdk, procs, examples>>

\* RequestFor with the two branches swapped
RequestFor_Swapped(exists) == IF exists THEN "create" ELSE "update"

\* deploy_cloudformation_stack: which request the branch on stack_exists issues
RequestFor(exists) == IF exists THEN "update" ELSE "create"

UpdateStack ==
    /\ pc = "request"
    /\ RequestFor(stack_exists) = "update"
    /\ calls' = Append(calls, Call("update", name))
    /\ \E fault \in Faults, accepts \in BOOLEAN :
         /\ faulted' = (faulted \/ fault)
         /\ IF ~fault /\ accepts /\ status[name] \in Updatable
            THEN /\ status' = [status EXCEPT ![name] = "updating"]
                 /\ waiter' = UpdateWaiter
                 /\ pc' = "wait"
                 /\ UNCHANGED <<result, exitCode>>
            ELSE /\ Raised
                 /\ UNCHANGED <<status, waiter>>
    /\ UNCHANGED <<credsValid, runs, act, name, stack_exists, polls, lastSeen,
                   listed, pre, base, prev, confirm, sdk, procs, examples>>

CreateStack ==
    /\ pc = "request"
    /\ RequestFor(stack_exists) = "create"
    /\ calls' = Append(calls, Call("create", name))
    /\ \E fault \in Faults :
         /\ faulted' = (faulted \/ fault)
         /\ IF ~fault /\ status[name] \in Gone
            THEN /\ status' = [status EXCEPT ![name] = "creating"]
                 /\ waiter' = CreateWaiter
                 /\ pc' = "wait"
                 /\ UNCHANGED <<result, exitCode>>
            ELSE /\ Raised
                 /\ UNCHANGED <<status, waiter>>
    /\ UNCHANGED <<credsValid, runs, act, name, stack_exists, polls, lastSeen,
                   listed, pre, base, prev, confirm, sdk, procs, examples>>

\* waiter.wait: one poll
WaiterPoll ==
    /\ pc = "wait"
    /\ polls' = polls + 1
    /\ \E fault \in Faults :
         /\ faulted' = (faulted \/ fault)
         /\ IF fault
            THEN /\ Raised
                 /\ UNCHANGED lastSeen
            ELSE /\ lastSeen' = status[name]
                 /\ CASE Acceptor(waiter, status[name]) = "success" ->
                           IF act = "deploy"
                           THEN pc' = "outputs" /\ UNCHANGED <<result, exitCode>>
                           ELSE Return("True")
                      [] Acceptor(waiter, status[name]) = "failure" -> Raised
                      [] OTHER ->
                           IF AttemptsLeft(polls')
                           THEN pc' = "wait" /\ UNCHANGED <<result, exitCode>>
                           ELSE Raised
    /\ UNCHANGED <<status, credsValid, calls, runs, act, name, stack_exists, waiter,
                   listed, pre, base, prev, confirm, sdk, procs, examples>>

\* deploy_cloudformation_stack: read the outputs, report success
DescribeOutputs ==
    /\ pc = "outputs"
    /\ \E fault \in Faults :
         /\ faulted' = (faulted \/ fault)
         /\ IF fault \/ status[name] \in Gone
            THEN Raised
            ELSE Return("True")
    /\ UNCHANGED <<status, credsValid, calls, runs, act, name, stack_exists, waiter,
                   polls, lastSeen, listed, pre, base, prev, confirm, sdk, procs, examples>>

\* Confirmed taking everything but a no for consent
Confirmed_NotNo(c) == Lower(c) /= "no"

\* main(): does the answer at the prompt let the deletion go on
Confirmed(c) == Lower(c) = "yes"

\* main(): the confirmation read from standard input
Confirm ==
    /\ pc = "confirm"
    /\ \E c \in ConfirmInputs :
         /\ confirm' = c
         /\ IF Confirmed(c)
            THEN pc' = "del_request" /\ UNCHANGED <<result, exitCode>>
            ELSE Finish("none", 0)
    /\ UNCHANGED <<status, credsValid, calls, runs, act, name, stack_exists, waiter,
                   polls, lastSeen, listed, pre, faulted, base, prev, sdk, procs, examples>>

\* Deleted that starts a deletion whatever the status
Deleted_Always(s) == "deleting"

\* what delete_stack does to a stack in status s
Deleted(s) == IF s \in Gone THEN s ELSE "deleting"

\* delete_cloudformation_stack: the delete request
DeleteStack ==
    /\ pc = "del_request"
    /\ calls' = Append(calls, Call("delete", name))
    /\ pre' = status[name]
    /\ \E fault \in Faults :
         /\ faulted' = (faulted \/ fault)
         /\ IF fault
            THEN /\ Raised
                 /\ UNCHANGED <<status, waiter>>
            ELSE /\ status' = [status EXCEPT ![name] = Deleted(status[name])]
                 /\ waiter' = DeleteWaiter
                 /\ pc' = "wait"
                 /\ UNCHANGED <<result, exitCode>>
    /\ UNCHANGED <<credsValid, runs, act, name, stack_exists, polls, lastSeen,
                   listed, base, prev, confirm, sdk, procs, examples>>

\* the statuses list_stacks asks for
StackStatusFilter == {"create_complete", "update_complete", "rollback_complete"}

Matching == {n \in Names : status[n] \in StackStatusFilter}

\* the first page of the answer: everything when it fits, else PageSize of them
FirstPages == IF Cardinality(Matching) <= PageSize
              THEN {Matching}
              ELSE {p \in SUBSET Matching : Cardinality(p) = PageSize}

ListStacks ==
    /\ pc = "list"
    /\ \E fault \in Faults :
         /\ faulted' = (faulted \/ fault)
         /\ IF fault
            THEN listed' = {}
            ELSE \E p \in FirstPages : listed' = p
    /\ Finish("none", 0)
    /\ UNCHANGED <<status, credsValid, calls, runs, act, name, stack_exists, waiter,
                   polls, lastSeen, pre, base, prev, confirm, sdk, procs, examples>>

Next ==
    \/ \E a \in Actions, n \in Names \cup {NoName}, t \in BOOLEAN : Start(a, n, t)
    \/ ValidateCredentials
    \/ ProcessParams
    \/ ReadTemplate
    \/ Lookup
    \/ UpdateStack
    \/ CreateStack
    \/ WaiterPoll
    \/ DescribeOutputs
    \/ Confirm
    \/ DeleteStack
    \/ ListStacks
    \/ \E n \in Names : Progress(n)

Spec == Init /\ [][Next]_vars

\* a method of AWSDeployer that was entered runs on: the process is single-threaded
\* and every call blocks until it answers
MethodStep ==
    \/ ValidateCredentials
    \/ ReadTemplate
    \/ Lookup
    \/ UpdateStack
    \/ CreateStack
    \/ WaiterPoll
    \/ DescribeOutputs
    \/ DeleteStack
    \/ ListStacks

FairSpec == Spec /\ WF_vars(MethodStep)

(* ------------------ the operations of the example modules --------------- *)

\* an operation that calls the SDK inside a try: the exception class its except
\* clause names, and whether the handler ends in a return or in a bare raise
Op(n, c, t) == [op |-> n, catches |-> c, then |-> t]

\* Ec2Ops with every handler returning
Ec2Ops_NoRaise ==
    { Op("EC2Manager.create_instance", "ClientError", "sentinel"),
      Op("EC2Manager.stop_instance", "ClientError", "sentinel"),
      Op("EC2Manager.start_instance", "ClientError", "sentinel"),
      Op("EC2Manager.terminate_instance", "ClientError", "sentinel"),
      Op("EC2Manager.get_instance_info", "ClientError", "sentinel"),
      Op("EC2Manager.list_instances", "ClientError", "sentinel") }

\* the operations of src/01-compute/ec2_management.py
Ec2Ops ==
    { Op("EC2Manager.create_instance", "ClientError", "raise"),
      Op("EC2Manager.stop_instance", "ClientError", "sentinel"),
      Op("EC2Manager.start_instance", "ClientError", "sentinel"),
      Op("EC2Manager.terminate_instance", "ClientError", "sentinel"),
      Op("EC2Manager.get_instance_info", "ClientError", "sentinel"),
      Op("EC2Manager.list_instances", "ClientError", "sentinel") }

\* the operations of src/01-compute/lambda_function.py
LambdaOps ==
    { Op("lambda_function.process_s3_event", "Exception", "raise"),
      Op("lambda_function.write_to_dynamodb", "Exception", "sentinel"),
      Op("lambda_function.send_sns_notification", "Exception", "sentinel") }

\* the operations of src/02-storage/s3_operations.py
S3Ops ==
    { Op("S3Manager.create_bucket", "ClientError", "sentinel"),
      Op("S3Manager.upload_file", "ClientError", "sentinel"),
      Op("S3Manager.download_file", "ClientError", "sentinel"),
      Op("S3Manager.list_objects", "ClientError", "sentinel"),
      Op("S3Manager.delete_object", "ClientError", "sentinel"),
      Op("S3Manager.generate_presigned_url", "ClientError", "sentinel"),
      Op("S3Manager.enable_lifecycle_policy", "ClientError", "sentinel"),
      Op("S3Manager.enable_replication", "ClientError", "sentinel") }

\* the operations of src/03-database/dynamodb_operations.py
DynamoDBOps ==
    { Op("DynamoDBManager.create_table", "ClientError", "raise"),
      Op("DynamoDBManager.put_item", "ClientError", "sentinel"),
      Op("DynamoDBManager.get_item", "ClientError", "sentinel"),
      Op("DynamoDBManager.update_item", "ClientError", "sentinel"),
      Op("DynamoDBManager.delete_item", "ClientError", "sentinel"),
      Op("DynamoDBManager.query", "ClientError", "sentinel"),
      Op("DynamoDBManager.scan", "ClientError", "sentinel"),
      Op("DynamoDBManager.create_global_secondary_index", "ClientError", "sentinel"),
      Op("DynamoDBManager.enable_streams", "ClientError", "raise") }

\* the operations of src/04-networking/vpc_setup.py
VpcOps ==
    { Op("VPCManager.create_vpc", "ClientError", "raise"),
      Op("VPCManager.create_subnet", "ClientError", "raise"),
      Op("VPCManager.create_internet_gateway", "ClientError", "raise"),
      Op("VPCManager.create_nat_gateway", "ClientError", "raise"),
      Op("VPCManager.create_route_table", "ClientError", "raise"),
      Op("VPCManager.add_route", "ClientError", "sentinel"),
      Op("VPCManager.associate_route_table", "ClientError", "raise"),
      Op("VPCManager.create_security_group", "ClientError", "raise"),
      Op("VPCManager.add_security_group_rule", "ClientError", "sentinel") }

\* the operations of src/05-security/iam_management.py
IamOps ==
    { Op("IAMManager.create_user", "ClientError", "raise"),
      Op("IAMManager.create_access_key", "ClientError", "raise"),
      Op("IAMManager.create_group", "ClientError", "raise"),
      Op("IAMManager.add_user_to_group", "ClientError", "sentinel"),
      Op("IAMManager.create_policy", "ClientError", "raise"),
      Op("IAMManager.attach_policy_to_user", "ClientError", "sentinel"),
      Op("IAMManager.attach_policy_to_group", "ClientError", "sentinel"),
      Op("IAMManager.create_role", "ClientError", "raise"),
      Op("IAMManager.attach_policy_to_role", "ClientError", "sentinel") }

\* the operations of src/06-integration/sqs_sns_example.py
MessagingOps ==
    { Op("MessagingManager.create_sqs_queue", "ClientError", "raise"),
      Op("MessagingManager.send_message", "ClientError", "raise"),
      Op("MessagingManager.receive_messages", "ClientError", "sentinel"),
      Op("MessagingManager.delete_message", "ClientError", "sentinel"),
      Op("MessagingManager.create_sns_topic", "ClientError", "raise"),
      Op("MessagingManager.subscribe_to_topic", "ClientError", "raise"),
      Op("MessagingManager.publish_to_topic", "ClientError", "raise"),
      Op("MessagingManager.create_fanout_architecture", "ClientError", "raise") }

\* the operations of src/deploy.py
DeployerOps ==
    { Op("AWSDeployer.validate_credentials", "Exception", "sentinel"),
      Op("AWSDeployer.deploy_cloudformation_stack", "Exception", "sentinel"),
      Op("AWSDeployer.delete_cloudformation_stack", "Exception", "sentinel"),
      Op("AWSDeployer.list_stacks", "Exception", "sentinel") }

Operations ==
    Ec2Ops \cup LambdaOps \cup S3Ops \cup DynamoDBOps
    \cup VpcOps \cup IamOps \cup MessagingOps \cup DeployerOps

\* how the SDK call of an operation ends: it answers, the service rejects it
\* (botocore raises ClientError), or botocore fails otherwise (no credentials,
\* no connection, a waiter that gives up: subclasses of BotoCoreError)
Errors == {"none", "ClientError", "BotoCoreError"}

\* does an except clause naming class c catch the error e
Catches(c, e) == c = "Exception" \/ c = e

\* what the caller of operation o gets when its SDK call ends with e
Handle(o, e) ==
    IF e = "none" THEN "value"
    ELSE IF Catches(o.catches, e) /\ o.then = "sentinel" THEN "sentinel"
    ELSE "exception"

\* one call of an operation
SdkCall(o, e) ==
    /\ sdk' = [op |-> o.op, err |-> e, outcome |-> Handle(o, e)]
    /\ UNCHANGED <<status, credsValid, calls, runs, pc, act, name, stack_exists, waiter,
                   polls, lastSeen, result, exitCode, listed, pre, faulted, base, prev,
                   confirm, procs, examples>>

OpsNext == \E o \in Operations, e \in Errors : SdkCall(o, e)

OpsSpec == Init /\ [][OpsNext]_vars

(* --------------- concurrent invocations of Deploy and Delete ------------ *)

\* the methods a process invokes
Methods == {"deploy", "delete"}

\* process p moves on to r; the sequential run and the example modules stand by
Becomes(p, r) ==
    /\ procs' = [procs EXCEPT ![p] = r]
    /\ UNCHANGED <<credsValid, calls, runs, pc, act, name, stack_exists, waiter, polls,
                   lastSeen, result, exitCode, listed, pre, faulted, base, prev,
                   confirm, sdk, examples>>

\* the method of process p ends with r
Ends(p, r) == [procs[p] EXCEPT !.pc = "done", !.result = r]

\* the except branch of the method process p runs
ProcRaised(p) ==
    Ends(p, IF procs[p].op = "delete" THEN DeleteExcept ELSE DeployExcept)

\* process p invokes deploy_cloudformation_stack or delete_cloudformation_stack;
\* Deploy starts by reading the template
Invoke(p, m, n) ==
    /\ procs[p].pc = "idle"
    /\ \E readable \in BOOLEAN :
         Becomes(p, IF m = "delete"
                    THEN [procs[p] EXCEPT !.op = m, !.name = n, !.pc = "del_request"]
                    ELSE IF readable
                    THEN [procs[p] EXCEPT !.op = m, !.name = n, !.pc = "lookup"]
                    ELSE [procs[p] EXCEPT !.op = m, !.name = n, !.pc = "done",
                                          !.result = DeployExcept])
    /\ UNCHANGED status

\* deploy_cloudformation_stack in process p: does the stack exist
ProcLookup(p) ==
    /\ procs[p].pc = "lookup"
    /\ \E fault \in Faults :
         Becomes(p, [procs[p] EXCEPT !.pc = "request",
                        !.exists = LookupExists(fault, status[procs[p].name])])
    /\ UNCHANGED status

\* deploy_cloudformation_stack in process p: the update branch
ProcUpdate(p) ==
    /\ procs[p].pc = "request"
    /\ RequestFor(procs[p].exists) = "update"
    /\ \E fault \in Faults, accepts \in BOOLEAN :
         IF ~fault /\ accepts /\ status[procs[p].name] \in Updatable
         THEN /\ status' = [status EXCEPT ![procs[p].name] = "updating"]
              /\ Becomes(p, [procs[p] EXCEPT !.pc = "wait", !.req = "update",
                                             !.waiter = UpdateWaiter])
         ELSE /\ Becomes(p, [ProcRaised(p) EXCEPT !.req = "update"])
              /\ UNCHANGED status

\* deploy_cloudformation_stack in process p: the create branch
ProcCreate(p) ==
    /\ procs[p].pc = "request"
    /\ RequestFor(procs[p].exists) = "create"
    /\ \E fault \in Faults :
         IF ~fault /\ status[procs[p].name] \in Gone
         THEN /\ status' = [status EXCEPT ![procs[p].name] = "creating"]
              /\ Becomes(p, [procs[p] EXCEPT !.pc = "wait", !.req = "create",
                                             !.waiter = CreateWaiter])
         ELSE /\ Becomes(p, [ProcRaised(p) EXCEPT !.req = "create"])
              /\ UNCHANGED status

\* delete_cloudformation_stack in process p: the delete request
ProcDelete(p) ==
    /\ procs[p].pc = "del_request"
    /\ \E fault \in Faults :
         IF fault
         THEN /\ Becomes(p, [ProcRaised(p) EXCEPT !.req = "delete"])
              /\ UNCHANGED status
         ELSE /\ status' = [status EXCEPT ![procs[p].name] = Deleted(status[procs[p].name])]
              /\ Becomes(p, [procs[p] EXCEPT !.pc = "wait", !.req = "delete",
                                             !.waiter = DeleteWaiter])

\* waiter.wait in process p: one poll
ProcPoll(p) ==
    /\ procs[p].pc = "wait"
    /\ \E fault \in Faults :
         LET polled == [procs[p] EXCEPT !.polls = @ + 1]
             seen == Acceptor(procs[p].waiter, status[procs[p].name])
         IN  Becomes(p,
               IF fault \/ seen = "failure" THEN [ProcRaised(p) EXCEPT !.polls = @ + 1]
               ELSE IF seen = "success"
               THEN IF procs[p].op = "deploy"
                    THEN [polled EXCEPT !.pc = "outputs"]
                    ELSE [polled EXCEPT !.pc = "done", !.result = "True"]
               ELSE IF AttemptsLeft(polled.polls) THEN polled
               ELSE [ProcRaised(p) EXCEPT !.polls = @ + 1])
    /\ UNCHANGED status

\* deploy_cloudformation_stack in process p: read the outputs, report success
ProcOutputs(p) ==
    /\ procs[p].pc = "outputs"
    /\ \E fault \in Faults :
         Becomes(p, IF fault \/ status[procs[p].name] \in Gone
                    THEN ProcRaised(p)
                    ELSE Ends(p, "True"))
    /\ UNCHANGED status

ConcNext ==
    \/ \E p \in Procs, m \in Methods, n \in Names : Invoke(p, m, n)
    \/ \E p \in Procs : ProcLookup(p)
    \/ \E p \in Procs : ProcUpdate(p)
    \/ \E p \in Procs : ProcCreate(p)
    \/ \E p \in Procs : ProcDelete(p)
    \/ \E p \in Procs : ProcPoll(p)
    \/ \E p \in Procs : ProcOutputs(p)
    \/ \E n \in Names : Progress(n)

ConcSpec == Init /\ [][ConcNext]_vars

(* ------------------------- lambda_function.py --------------------------- *)

\* the example modules run against their own services: the deploy helper stands by
ExamplesInit == Init /\ credsValid /\ status = [n \in Names |-> "absent"]

\* records in event['Records']
MaxRecords == 2

\* a record is an S3 notification or the record of another service
RecordKinds == {"s3", "other"}

RecordLists == UNION {[1..k -> RecordKinds] : k \in 0..MaxRecords}

\* event['httpMethod'], when the key is there
HttpMethods == {"GET", "POST", "PUT", "DELETE", "PATCH"}

\* event['body']: no such key, a JSON text, a text that is not JSON
Bodies == {"absent", "json", "text"}

\* event['source']
Sources == {"absent", "aws.events", "aws.s3"}

\* the events: which of the keys the handler and its processors read are there
Events ==
    {e \in [hasRecords : BOOLEAN, records : RecordLists,
            http : HttpMethods \cup {"absent"}, hasPath : BOOLEAN, body : Bodies,
            source : Sources] :
        /\ ~e.hasRecords => e.records = <<>>
        /\ e.http = "absent" => (~e.hasPath /\ e.body = "absent")}

\* the statusCode of the responses
StatusOk == 200
StatusNotAllowed == 405
StatusError == 500

\* lambda_handler is invoked with event e; c: does the context object have an
\* attribute request_id (the context of the Lambda runtime names it aws_request_id)
LambdaInvoke(e, c) ==
    /\ lam.pc \in {"idle", "done"}
    /\ lam' = [LamIdle EXCEPT !.pc = "log", !.event = e, !.request_id = c]
    /\ UNCHANGED <<deployer, task, ec2, vpc, bucket, fan>>

\* lambda_handler: the prints before the try read context.request_id
LambdaLog ==
    /\ lam.pc = "log"
    /\ lam' = IF lam.request_id
              THEN [lam EXCEPT !.pc = "dispatch"]
              ELSE [lam EXCEPT !.pc = "done", !.raised = TRUE]
    /\ UNCHANGED <<deployer, task, ec2, vpc, bucket, fan>>

\* lambda_handler: the if/elif chain on the keys of the event
Processor(e) ==
    IF e.hasRecords THEN "process_s3_event"
    ELSE IF e.http /= "absent" THEN "process_api_gateway_event"
    ELSE IF e.source = "aws.events" THEN "process_eventbridge_event"
    ELSE "generic"

\* the invocation returns a response with this statusCode
Responds(c) == [lam EXCEPT !.pc = "done", !.code = c]

\* lambda_handler: the except branch
HandlerExcept == Responds(StatusError)

\* lambda_handler: pick the processor; the generic branch answers at once
LambdaDispatch ==
    /\ lam.pc = "dispatch"
    /\ lam' = IF Processor(lam.event) = "generic"
              THEN [Responds(StatusOk) EXCEPT !.chosen = "generic"]
              ELSE [lam EXCEPT !.pc = "process", !.chosen = Processor(lam.event)]
    /\ UNCHANGED <<deployer, task, ec2, vpc, bucket, fan>>

\* process_s3_event: one round of the loop over the records, or the return after it
ProcessS3Event ==
    /\ lam.pc = "process"
    /\ lam.chosen = "process_s3_event"
    /\ \E getFails, putFails \in BOOLEAN :
         lam' = IF lam.i = Len(lam.event.records) THEN Responds(StatusOk)
                ELSE IF lam.event.records[lam.i + 1] /= "s3" THEN HandlerExcept
                ELSE IF getFails \/ putFails THEN HandlerExcept
                ELSE [lam EXCEPT !.i = @ + 1]
    /\ UNCHANGED <<deployer, task, ec2, vpc, bucket, fan>>

\* process_api_gateway_event
ProcessApiGatewayEvent ==
    /\ lam.pc = "process"
    /\ lam.chosen = "process_api_gateway_event"
    /\ lam' = IF ~lam.event.hasPath \/ lam.event.body = "text" THEN HandlerExcept
              ELSE IF lam.event.http \in {"GET", "POST", "PUT", "DELETE"}
              THEN Responds(StatusOk)
              ELSE Responds(StatusNotAllowed)
    /\ UNCHANGED <<deployer, task, ec2, vpc, bucket, fan>>

\* process_eventbridge_event
ProcessEventBridgeEvent ==
    /\ lam.pc = "process"
    /\ lam.chosen = "process_eventbridge_event"
    /\ lam' = Responds(StatusOk)
    /\ UNCHANGED <<deployer, task, ec2, vpc, bucket, fan>>

LambdaNext ==
    \/ \E e \in Events, c \in BOOLEAN : LambdaInvoke(e, c)
    \/ LambdaLog
    \/ LambdaDispatch
    \/ ProcessS3Event
    \/ ProcessApiGatewayEvent
    \/ ProcessEventBridgeEvent

LambdaSpec == ExamplesInit /\ [][LambdaNext]_vars

\* long_running_task: safety_margin, in milliseconds
safety_margin == 10000

\* long_running_task: time.sleep(0.1), in milliseconds
SleepMillis == 100

\* items long_running_task has time for, at most
MaxItems == 8

\* what get_remaining_time_in_millis answers when the task starts
StartClocks ==
    {safety_margin - SleepMillis} \cup {safety_margin + k * SleepMillis : k \in 0..MaxItems}

\* the time one round of the loop takes: the sleep, or the sleep and as much again
Elapsed == {SleepMillis, SleepMillis + SleepMillis}

\* BelowMargin that also stops at the margin itself
BelowMargin_Inclusive(t) == t <= safety_margin

\* long_running_task: if time_remaining < safety_margin
BelowMargin(t) == t < safety_margin

\* long_running_task is called when c milliseconds remain
TaskStart(c) ==
    /\ task.pc \in {"idle", "done"}
    /\ task' = [TaskIdle EXCEPT !.pc = "poll", !.clock = c]
    /\ UNCHANGED <<deployer, lam, ec2, vpc, bucket, fan>>

\* long_running_task: read the remaining time; break and return when it is short
TaskPoll ==
    /\ task.pc = "poll"
    /\ task' = IF BelowMargin(task.clock)
               THEN [task EXCEPT !.pc = "done", !.time_remaining = task.clock,
                                 !.polls = @ + 1,
                                 !.completed = (task.clock >= safety_margin)]
               ELSE [task EXCEPT !.pc = "work", !.time_remaining = task.clock,
                                 !.polls = @ + 1]
    /\ UNCHANGED <<deployer, lam, ec2, vpc, bucket, fan>>

\* long_running_task: process one item and sleep
TaskWork ==
    /\ task.pc = "work"
    /\ \E d \in Elapsed :
         task' = [task EXCEPT !.pc = "poll", !.items_processed = @ + 1,
                              !.clock = IF @ > d THEN @ - d ELSE 0]
    /\ UNCHANGED <<deployer, lam, ec2, vpc, bucket, fan>>

TaskNext ==
    \/ \E c \in StartClocks : TaskStart(c)
    \/ TaskPoll
    \/ TaskWork

TaskSpec == ExamplesInit /\ [][TaskNext]_vars

\* the loop of long_running_task runs on: nothing in it blocks
TaskFairSpec == TaskSpec /\ WF_vars(TaskPoll \/ TaskWork)

(* -------------------------- ec2_management.py --------------------------- *)

\* the states of the instance; "none": no instance was launched
InstanceStates ==
    {"none", "pending", "running", "stopping", "stopped", "shutting-down", "terminated"}

Ec2Methods == {"create_instance", "stop_instance", "start_instance", "terminate_instance"}

\* what the service makes of a request for an instance in state s
Ec2Effect(o, s) ==
    CASE o = "create_instance" -> "pending"
      [] o = "stop_instance" ->
            IF s = "running" THEN "stopping"
            ELSE IF s \in {"stopping", "stopped"} THEN s ELSE "reject"
      [] o = "start_instance" ->
            IF s = "stopped" THEN "pending"
            ELSE IF s \in {"pending", "running"} THEN s ELSE "reject"
      [] o = "terminate_instance" ->
            IF s = "none" THEN "reject"
            ELSE IF s = "terminated" THEN s ELSE "shutting-down"

\* where the service takes the instance on its own
Ec2Outcome(s) ==
    CASE s = "pending" -> {"running", "terminated"}
      [] s = "stopping" -> {"stopped"}
      [] s = "shutting-down" -> {"terminated"}
      [] OTHER -> {}

\* what one poll of waiter w makes of the instance state it observes
Ec2Acceptor(w, s) ==
    CASE w = "instance_running" ->
            IF s = "running" THEN "success"
            ELSE IF s \in {"shutting-down", "terminated", "stopping"} THEN "failure"
            ELSE "retry"
      [] w = "instance_stopped" ->
            IF s = "stopped" THEN "success"
            ELSE IF s \in {"pending", "terminated"} THEN "failure"
            ELSE "retry"
      [] w = "instance_terminated" ->
            IF s = "terminated" THEN "success"
            ELSE IF s \in {"pending", "stopping"} THEN "failure"
            ELSE "retry"

\* the waiter each method obtains
Ec2Waiter(o) ==
    CASE o = "create_instance" -> "instance_running"
      [] o = "stop_instance" -> "instance_stopped"
      [] o = "start_instance" -> "instance_running"
      [] o = "terminate_instance" -> "instance_terminated"

\* the call ends: r is what the caller gets, a return value or the exception
Ec2Ends(r) == [ec2 EXCEPT !.pc = "done", !.result = r]

\* Ec2Except with the handlers returning True
Ec2Except_True == Ec2Ends(IF ec2.op = "create_instance" THEN "ClientError" ELSE "True")

\* except ClientError: create_instance re-raises, the other methods return False
Ec2Except == Ec2Ends(IF ec2.op = "create_instance" THEN "ClientError" ELSE "False")

\* an SDK call of the method ended with the error e
Ec2Fails(e) == IF e = "ClientError" THEN Ec2Except ELSE Ec2Ends(e)

\* a method of EC2Manager is called; create_instance with or without tags
Ec2Call(o, t) ==
    /\ ec2.pc \in {"idle", "done"}
    /\ o = "create_instance" => ec2.state = "none"
    /\ ec2' = [ec2 EXCEPT !.pc = "request", !.op = o,
                          !.wantTags = (t /\ o = "create_instance"),
                          !.requested = FALSE, !.polls = 0, !.seen = "none",
                          !.result = "none"]
    /\ UNCHANGED <<deployer, lam, task, vpc, bucket, fan>>

\* run_instances, stop_instances, start_instances, terminate_instances
Ec2Request ==
    /\ ec2.pc = "request"
    /\ \E e \in Errors :
         ec2' = IF e /= "none" THEN Ec2Fails(e)
                ELSE IF Ec2Effect(ec2.op, ec2.state) = "reject" THEN Ec2Except
                ELSE [ec2 EXCEPT !.pc = "wait", !.requested = TRUE,
                                 !.state = Ec2Effect(ec2.op, ec2.state)]
    /\ UNCHANGED <<deployer, lam, task, vpc, bucket, fan>>

\* waiter.wait: one poll; a waiter that fails raises WaiterError, which the
\* except ClientError of the methods does not catch
Ec2WaiterPoll ==
    /\ ec2.pc = "wait"
    /\ \E fault \in BOOLEAN :
         LET polled == [ec2 EXCEPT !.polls = @ + 1, !.seen = ec2.state]
             verdict == Ec2Acceptor(Ec2Waiter(ec2.op), ec2.state)
             failed == [ec2 EXCEPT !.polls = @ + 1, !.pc = "done", !.result = "WaiterError"]
         IN  ec2' = IF fault THEN failed
                    ELSE IF verdict = "failure"
                    THEN [polled EXCEPT !.pc = "done", !.result = "WaiterError"]
                    ELSE IF verdict = "success"
                    THEN IF ec2.op /= "create_instance"
                         THEN [polled EXCEPT !.pc = "done", !.result = "True"]
                         ELSE IF ec2.wantTags
                         THEN [polled EXCEPT !.pc = "tag"]
                         ELSE [polled EXCEPT !.pc = "done", !.result = "instance_id"]
                    ELSE IF AttemptsLeft(polled.polls) THEN polled
                    ELSE [polled EXCEPT !.pc = "done", !.result = "WaiterError"]
    /\ UNCHANGED <<deployer, lam, task, vpc, bucket, fan>>

\* create_instance: create_tags, then return the instance id
Ec2CreateTags ==
    /\ ec2.pc = "tag"
    /\ \E e \in Errors :
         ec2' = IF e /= "none" THEN Ec2Fails(e)
                ELSE IF ec2.state \in {"none", "terminated"} THEN Ec2Except
                ELSE [Ec2Ends("instance_id") EXCEPT !.tagged = TRUE]
    /\ UNCHANGED <<deployer, lam, task, vpc, bucket, fan>>

\* the service moves the instance on
Ec2Progress ==
    /\ \E s \in Ec2Outcome(ec2.state) : ec2' = [ec2 EXCEPT !.state = s]
    /\ UNCHANGED <<deployer, lam, task, vpc, bucket, fan>>

Ec2Next ==
    \/ \E o \in Ec2Methods, t \in BOOLEAN : Ec2Call(o, t)
    \/ Ec2Request
    \/ Ec2WaiterPoll
    \/ Ec2CreateTags
    \/ Ec2Progress

Ec2Spec == ExamplesInit /\ [][Ec2Next]_vars

(* ----------------------------- vpc_setup.py ----------------------------- *)

\* calls of create_nat_gateway
MaxNatCalls == 2

\* a method of VPCManager starts: the fields of the call before are cleared
VpcEnters(o) ==
    [VpcIdle EXCEPT !.eips = vpc.eips, !.nats = vpc.nats, !.natCalls = vpc.natCalls,
                    !.eips0 = vpc.eips, !.nats0 = vpc.nats, !.op = o]

\* the call ends: r is what the caller gets, a return value or the exception
VpcEnds(r) == [vpc EXCEPT !.pc = "done", !.result = r]

\* RouteTarget preferring the NAT gateway
RouteTarget_NatFirst(g, n, i) ==
    IF n THEN "NatGatewayId"
    ELSE IF g THEN "GatewayId"
    ELSE IF i THEN "InstanceId"
    ELSE "none"

\* add_route: the target parameter the if/elif chain puts into the request;
\* g, n, i: is gateway_id, nat_gateway_id, instance_id given
RouteTarget(g, n, i) ==
    IF g THEN "GatewayId"
    ELSE IF n THEN "NatGatewayId"
    ELSE IF i THEN "InstanceId"
    ELSE "none"

\* add_route is called
AddRouteCall(g, n, i) ==
    /\ vpc.pc \in {"idle", "done"}
    /\ vpc' = [VpcEnters("add_route") EXCEPT !.pc = "route", !.gateway_id = g,
                                             !.nat_gateway_id = n, !.instance_id = i]
    /\ UNCHANGED <<deployer, lam, task, ec2, bucket, fan>>

\* add_route: build the parameters, call create_route, return
AddRoute ==
    /\ vpc.pc = "route"
    /\ \E e \in Errors :
         LET target == RouteTarget(vpc.gateway_id, vpc.nat_gateway_id, vpc.instance_id)
         IN  vpc' = IF target = "none" THEN VpcEnds("ValueError")
                    ELSE [VpcEnds(CASE e = "none" -> "True"
                                    [] e = "ClientError" -> "False"
                                    [] OTHER -> e)
                            EXCEPT !.sent = target, !.err = e]
    /\ UNCHANGED <<deployer, lam, task, ec2, bucket, fan>>

\* NatGatewayExcept swallowing the error
NatGatewayExcept_ReturnsNone == "None"

\* create_nat_gateway: the except ClientError branch re-raises
NatGatewayExcept == "ClientError"

\* what the caller of create_nat_gateway gets when an SDK call ends with e
NatGatewayRaises(e) == VpcEnds(IF e = "ClientError" THEN NatGatewayExcept ELSE e)

\* create_nat_gateway is called, with or without tags
NatGatewayCall(t) ==
    /\ vpc.pc \in {"idle", "done"}
    /\ vpc.natCalls < MaxNatCalls
    /\ vpc' = [VpcEnters("create_nat_gateway") EXCEPT !.pc = "allocate", !.wantTags = t,
                                                      !.natCalls = @ + 1]
    /\ UNCHANGED <<deployer, lam, task, ec2, bucket, fan>>

\* create_nat_gateway: allocate_address
AllocateAddress ==
    /\ vpc.pc = "allocate"
    /\ \E e \in Errors :
         vpc' = IF e = "none"
                THEN [vpc EXCEPT !.pc = "create", !.eips = @ + 1]
                ELSE NatGatewayRaises(e)
    /\ UNCHANGED <<deployer, lam, task, ec2, bucket, fan>>

\* create_nat_gateway: the create_nat_gateway request
CreateNatGateway ==
    /\ vpc.pc = "create"
    /\ \E e \in Errors :
         vpc' = IF e = "none"
                THEN [vpc EXCEPT !.pc = "wait", !.nats = @ + 1, !.natState = "pending"]
                ELSE NatGatewayRaises(e)
    /\ UNCHANGED <<deployer, lam, task, ec2, bucket, fan>>

\* the service brings the NAT gateway up, or fails to
NatGatewayProgress ==
    /\ vpc.natState = "pending"
    /\ \E st \in {"available", "failed"} : vpc' = [vpc EXCEPT !.natState = st]
    /\ UNCHANGED <<deployer, lam, task, ec2, bucket, fan>>

\* create_nat_gateway: one poll of the nat_gateway_available waiter
NatGatewayPoll ==
    /\ vpc.pc = "wait"
    /\ \E fault \in BOOLEAN :
         LET polled == [vpc EXCEPT !.polls = @ + 1]
             failed == [polled EXCEPT !.pc = "done", !.result = "WaiterError"]
         IN  vpc' = IF fault \/ vpc.natState = "failed" THEN failed
                    ELSE IF vpc.natState = "available"
                    THEN IF vpc.wantTags
                         THEN [polled EXCEPT !.pc = "tag"]
                         ELSE [polled EXCEPT !.pc = "done", !.result = "nat_gateway_id"]
                    ELSE IF AttemptsLeft(polled.polls) THEN polled
                    ELSE failed
    /\ UNCHANGED <<deployer, lam, task, ec2, bucket, fan>>

\* create_nat_gateway: create_tags, then return the id
NatGatewayTags ==
    /\ vpc.pc = "tag"
    /\ \E e \in Errors :
         vpc' = IF e = "none" THEN VpcEnds("nat_gateway_id") ELSE NatGatewayRaises(e)
    /\ UNCHANGED <<deployer, lam, task, ec2, bucket, fan>>

VpcNext ==
    \/ \E g, n, i \in BOOLEAN : AddRouteCall(g, n, i)
    \/ AddRoute
    \/ \E t \in BOOLEAN : NatGatewayCall(t)
    \/ AllocateAddress
    \/ CreateNatGateway
    \/ NatGatewayProgress
    \/ NatGatewayPoll
    \/ NatGatewayTags

VpcSpec == ExamplesInit /\ [][VpcNext]_vars

(* --------------------------- s3_operations.py --------------------------- *)

\* the call ends with the return value or the exception r
BucketEnds(r) == [bucket EXCEPT !.pc = "done", !.result = r]

\* BucketExcept reporting success
BucketExcept_True == "True"

\* create_bucket: what the except ClientError branch returns
BucketExcept == "False"

\* an SDK call of create_bucket ended with the error e
BucketFails(e) ==
    [BucketEnds(IF e = "ClientError" THEN BucketExcept ELSE e) EXCEPT !.err = e]

\* the regions an S3Manager is made for
Regions == {"us-east-1", "sa-east-1"}

\* create_bucket: the LocationConstraint sent for region r, "none" when it is left out
LocationConstraint(r) == IF r = "us-east-1" THEN "none" ELSE r

\* create_bucket is called on the S3Manager of region r
CreateBucketCall(r, v, e, b) ==
    /\ bucket.pc \in {"idle", "done"}
    /\ bucket' = [BucketIdle EXCEPT !.exists = bucket.exists, !.pc = "create",
                                    !.region = r,
                                    !.enable_versioning = v, !.enable_encryption = e,
                                    !.block_public_access = b]
    /\ UNCHANGED <<deployer, lam, task, ec2, vpc, fan>>

\* create_bucket: the create_bucket request
CreateBucket ==
    /\ bucket.pc = "create"
    /\ \E e \in Errors :
         bucket' = IF e = "none"
                   THEN [bucket EXCEPT !.pc = "versioning", !.exists = TRUE,
                                       !.constraint = LocationConstraint(bucket.region)]
                   ELSE [BucketFails(e) EXCEPT
                            !.constraint = LocationConstraint(bucket.region)]
    /\ UNCHANGED <<deployer, lam, task, ec2, vpc, fan>>

\* one configuration step of create_bucket: skipped when not requested
Configure(requested, step, next) ==
    \E e \in Errors :
        bucket' = IF ~requested THEN [bucket EXCEPT !.pc = next]
                  ELSE IF e = "none"
                  THEN [bucket EXCEPT !.pc = next, !.applied = Append(@, step)]
                  ELSE BucketFails(e)

\* create_bucket: if enable_versioning: put_bucket_versioning
PutBucketVersioning ==
    /\ bucket.pc = "versioning"
    /\ Configure(bucket.enable_versioning, "versioning", "encryption")
    /\ UNCHANGED <<deployer, lam, task, ec2, vpc, fan>>

\* create_bucket: if enable_encryption: put_bucket_encryption
PutBucketEncryption ==
    /\ bucket.pc = "encryption"
    /\ Configure(bucket.enable_encryption, "encryption", "public_access_block")
    /\ UNCHANGED <<deployer, lam, task, ec2, vpc, fan>>

\* create_bucket: if block_public_access: put_public_access_block; return True
PutPublicAccessBlock ==
    /\ bucket.pc = "public_access_block"
    /\ \E e \in Errors :
         bucket' = IF ~bucket.block_public_access THEN BucketEnds("True")
                   ELSE IF e = "none"
                   THEN [BucketEnds("True") EXCEPT !.applied = Append(@, "public_access_block")]
                   ELSE BucketFails(e)
    /\ UNCHANGED <<deployer, lam, task, ec2, vpc, fan>>

BucketNext ==
    \/ \E r \in Regions, v, e, b \in BOOLEAN : CreateBucketCall(r, v, e, b)
    \/ CreateBucket
    \/ PutBucketVersioning
    \/ PutBucketEncryption
    \/ PutPublicAccessBlock

BucketSpec == ExamplesInit /\ [][BucketNext]_vars

(* --------------------------- sqs_sns_example.py ------------------------- *)

\* queue names in one call of create_fanout_architecture
MaxQueues == 2

QueueNames == {"orders", "billing", "audit"}

\* the lists of queue names a caller passes; a name may come twice
QueueLists == UNION {[1..n -> QueueNames] : n \in 0..MaxQueues}

\* FanoutSteps subscribing the queue before its policy is set
FanoutSteps_SubscribeFirst ==
    <<"create_queue", "get_queue_attributes", "subscribe", "set_queue_attributes">>

\* create_fanout_architecture: the calls of one round of the loop, in order
FanoutSteps ==
    <<"create_queue", "get_queue_attributes", "set_queue_attributes", "subscribe">>

\* the queue the loop is at
Queue == fan.queue_names[fan.k]

\* an SDK call failed with e: the handlers re-raise ClientError and catch nothing else
FanoutRaises(e) == [fan EXCEPT !.pc = "done", !.result = e]

\* the call the loop is at succeeded: on to the next call, the next queue, or the return
FanoutAdvances(f) ==
    IF f.step < Len(FanoutSteps) THEN [f EXCEPT !.step = @ + 1]
    ELSE IF f.k < Len(f.queue_names) THEN [f EXCEPT !.k = @ + 1, !.step = 1]
    ELSE [f EXCEPT !.pc = "done", !.result = "dict"]

\* create_fanout_architecture is called
FanoutCall(ns) ==
    /\ fan.pc = "idle"
    /\ fan' = [fan EXCEPT !.pc = "topic", !.queue_names = ns]
    /\ UNCHANGED <<deployer, lam, task, ec2, vpc, bucket>>

\* create_sns_topic
CreateSnsTopic ==
    /\ fan.pc = "topic"
    /\ \E e \in Errors :
         fan' = IF e /= "none" THEN FanoutRaises(e)
                ELSE IF fan.queue_names = <<>>
                THEN [fan EXCEPT !.pc = "done", !.result = "dict",
                                 !.log = Append(@, <<"create_topic", "topic">>)]
                ELSE [fan EXCEPT !.pc = "queue", !.k = 1, !.step = 1,
                                 !.log = Append(@, <<"create_topic", "topic">>)]
    /\ UNCHANGED <<deployer, lam, task, ec2, vpc, bucket>>

\* one SDK call of the loop: it fails, or it is logged and the loop moves on
FanoutStep(op, f) ==
    /\ fan.pc = "queue"
    /\ FanoutSteps[fan.step] = op
    /\ \E e \in Errors :
         fan' = IF e /= "none" THEN FanoutRaises(e)
                ELSE FanoutAdvances([f EXCEPT !.log = Append(@, <<op, Queue>>)])
    /\ UNCHANGED <<deployer, lam, task, ec2, vpc, bucket>>

\* create_sqs_queue
CreateSqsQueue == FanoutStep("create_queue", fan)

\* get_queue_attributes; the ARN goes to queue_arns
GetQueueAttributes ==
    FanoutStep("get_queue_attributes", [fan EXCEPT !.queue_arns = Append(@, Queue)])

\* set_queue_attributes with the policy that lets the topic send
SetQueueAttributes == FanoutStep("set_queue_attributes", fan)

\* subscribe_to_topic
SubscribeToTopic == FanoutStep("subscribe", fan)

FanoutNext ==
    \/ \E ns \in QueueLists : FanoutCall(ns)
    \/ CreateSnsTopic
    \/ CreateSqsQueue
    \/ GetQueueAttributes
    \/ SetQueueAttributes
    \/ SubscribeToTopic

FanoutSpec == ExamplesInit /\ [][FanoutNext]_vars

(* ------------------------------ the claims ----------------------------- *)

\* the requests of the current run, by operation
RunOps(op) == {i \in 1..Len(RunCalls) : RunCalls[i].op = op}

\* the run has left the create-or-update branch of deploy_cloudformation_stack
PastRequest == pc \in {"wait", "outputs", "done"}

\* C1: a Deploy whose lookup found the stack name absent issues a create_stack
\* request for that name and never an update_stack request.
C1_AbsentIsCreated ==
    (act = "deploy" /\ pre \in Gone) =>
        /\ RunOps("update") = {}
        /\ PastRequest => RunCalls = <<Call("create", name)>>

C1_Witness ==
    /\ act = "deploy" /\ pre \in Gone /\ pc = "done"
    /\ RunCalls = <<Call("create", name)>> /\ result = "True"

\* C2: a Deploy whose lookup was made while the stack name was present in a complete
\* state (create_complete or update_complete) issues an update_stack request for
\* that name and never a create_stack request.
C2_CompleteIsUpdated ==
    (act = "deploy" /\ pre \in Complete) =>
        /\ RunOps("create") = {}
        /\ PastRequest => RunCalls = <<Call("update", name)>>

\* C3: with credentials that fail the credential check, no run of the entry point
\* issues a create_stack, update_stack or delete_stack request.
C3_CredentialsGate == ~credsValid => calls = <<>>

\* C4: a poll of Deploy's waiter that observes a terminal status is the last one of
\* the wait, and a Deploy that waits on a stack in a terminal status returns.
C4_PollingEnds ==
    /\ [][(act = "deploy" /\ polls' = polls + 1 /\ lastSeen' \in Terminal)
             => pc' /= "wait"]_vars
    /\ (act = "deploy" /\ pc = "wait" /\ status[name] \in Terminal) ~> (pc = "done")

C4_Witness ==
    /\ act = "deploy" /\ pc = "outputs" /\ polls = MaxAttempts /\ polls > 1
    /\ lastSeen \in Terminal

\* C5 as stated: whatever maximum number of polls the caller asks for, Deploy stops
\* polling when that many polls were made.
C5_ConfigurableWait ==
    \A w \in 1..MaxAttempts : (act = "deploy" /\ pc = "wait") => polls < w

\* C5: Deploy never polls more than the waiter's own maximum number of attempts, and
\* when that many polls all observed a non-terminal status it returns False.
C5_FixedWait ==
    act = "deploy" =>
        /\ polls <= MaxAttempts
        /\ pc = "wait" => polls < MaxAttempts
        /\ (pc = "done" /\ polls = MaxAttempts /\ lastSeen \in InFlight) => result = "False"

C5_Witness ==
    /\ act = "deploy" /\ pc = "done" /\ polls = MaxAttempts /\ ~faulted
    /\ lastSeen \in InFlight /\ status[name] \in InFlight /\ result = "False"

\* C6 as stated: a Deploy or Delete that entered its wait and had no failing call
\* returns only after a poll observed the stack in a terminal status.
C6_NoTimeout ==
    (pc = "done" /\ polls > 0 /\ ~faulted) => lastSeen \in Terminal

\* C6: a Deploy or Delete that entered its wait returns only after a poll observed a
\* terminal status, or a call failed, or the waiter's maximum number of polls was
\* made, and in that last case it returns False.
C6_TerminalOrTimeout ==
    (pc = "done" /\ polls > 0) =>
        \/ lastSeen \in Terminal
        \/ faulted
        \/ polls = MaxAttempts /\ result = "False"

C6_Witness ==
    /\ act = "delete" /\ pc = "done" /\ polls = MaxAttempts /\ ~faulted
    /\ lastSeen = "deleting" /\ result = "False"

\* C7: a Deploy of an absent stack name with no failing call, whose waiter observed
\* create_complete after any number of polls that observed creating, returns True
\* and the run issued exactly one create_stack and no update_stack.
C7_CreateScenario ==
    (act = "deploy" /\ pc = "done" /\ pre \in Gone /\ ~faulted
       /\ lastSeen = "create_complete")
    => (result = "True" /\ exitCode = 0 /\ RunCalls = <<Call("create", name)>>)

C7_Witness ==
    /\ act = "deploy" /\ pc = "done" /\ pre = "absent" /\ ~faulted
    /\ lastSeen = "create_complete" /\ polls = MaxAttempts /\ polls > 1
    /\ result = "True"

\* the requests issued by the run before and by the current run
TwoRunCalls == SubSeq(calls, prev.base + 1, Len(calls))

\* C8: two Deploys in a row on the same stack name, absent at first, with no failing
\* call, issue one create_stack followed by one update_stack.
C8_CreateThenUpdate ==
    (act = "deploy" /\ pc = "done" /\ pre /= "none" /\ ~faulted /\ prev.name = name)
    => TwoRunCalls = <<Call("create", name), Call("update", name)>>

C8_Witness ==
    /\ act = "deploy" /\ pc = "done" /\ pre = "create_complete" /\ ~faulted
    /\ prev.name = name
    /\ calls = <<Call("create", name), Call("update", name)>>

\* a step of the run, as opposed to a step of the service
RunStep == pc' /= pc \/ polls' /= polls \/ calls' /= calls

\* C9: a Delete of an absent stack name with no failing call changes no stack's
\* status and returns True.
C9_DeleteAbsent ==
    /\ []((act = "delete" /\ pc = "done" /\ pre \in Gone /\ ~faulted)
           => (result = "True" /\ exitCode = 0 /\ status[name] = pre))
    /\ [][(act = "delete" /\ pc \in {"del_request", "wait"} /\ status[name] \in Gone
             /\ RunStep) => status' = status]_vars

C9_Witness ==
    /\ act = "delete" /\ pc = "done" /\ pre = "absent" /\ ~faulted
    /\ result = "True" /\ status[name] = "absent" /\ polls = 1

\* C10: Delete has issued exactly one delete_stack when it polls, returns True only
\* if the last poll observed the stack as gone, and returns False when the wait
\* ended otherwise.
C10_DeleteThenPoll ==
    act = "delete" =>
        /\ (pc = "wait" \/ polls > 0) => RunCalls = <<Call("delete", name)>>
        /\ (pc = "done" /\ result = "True") => lastSeen \in Gone
        /\ (pc = "done" /\ polls > 0 /\ lastSeen \notin Gone) => result = "False"

C10_Witness ==
    /\ act = "delete" /\ pc = "done" /\ result = "True" /\ polls = MaxAttempts
    /\ polls > 1 /\ pre = "create_complete" /\ lastSeen = "delete_complete"

\* C11: list_stacks returns all and only the stacks whose status is in the filter,
\* however many there are.
C11_ListsAllMatching ==
    [][(pc = "list" /\ pc' = "done" /\ ~faulted') => listed' = Matching]_vars

\* the actions that only read
ReadOnly == {"list", "validate", "estimate"}

\* C12: a run of list, validate or estimate issues no create_stack, update_stack or
\* delete_stack request and none of its steps changes the status of a stack.
C12_ReadOnlyRuns ==
    /\ [](act \in ReadOnly => RunCalls = <<>>)
    /\ [][(act' \in ReadOnly /\ (pc' /= pc \/ runs' /= runs))
             => (status' = status /\ calls' = calls)]_vars

C12_Witness ==
    /\ act = "list" /\ pc = "done" /\ ~faulted /\ listed /= {} /\ calls /= <<>>

\* C13: a run in which a remote call failed ends with the method returning False
\* (deploy, delete, validate) or the empty list (list).
C13_FailuresReturnFalse ==
    (pc = "done" /\ faulted) =>
        /\ act \in {"deploy", "delete", "validate"} => result = "False"
        /\ act = "list" => listed = {}

FailureTerminal == {"failed", "rollback_complete"}

\* C14: a Deploy whose awaited create or update ended in failed or rollback_complete
\* returns False, whichever of the two it is.
C14_FailureIsFalse ==
    (act = "deploy" /\ pc = "done" /\ polls > 0
       /\ (lastSeen \in FailureTerminal \/ status[name] \in FailureTerminal))
    => (result = "False" /\ exitCode = 1)

C14_Witness ==
    /\ act = "deploy" /\ pc = "done" /\ ~faulted /\ lastSeen = "rollback_complete"
    /\ RunCalls = <<Call("update", name)>> /\ result = "False"

\* C15: a Deploy that returns True has polled create_complete after its create_stack
\* or update_complete after its update_stack.
C15_TrueIsComplete ==
    (act = "deploy" /\ result = "True") =>
        /\ pc = "done" /\ polls > 0
        /\ \/ RunCalls = <<Call("create", name)>> /\ lastSeen = "create_complete"
           \/ RunCalls = <<Call("update", name)>> /\ lastSeen = "update_complete"

C15_Witness ==
    /\ act = "deploy" /\ result = "True" /\ lastSeen = "update_complete"
    /\ RunCalls = <<Call("update", name)>> /\ polls = MaxAttempts

\* C16: one run issues at most one create_stack, update_stack or delete_stack
\* request: a Deploy one create or one update, a Delete one delete.
C16_NoRetry ==
    /\ Len(RunCalls) <= 1
    /\ act = "deploy" => RunOps("delete") = {}
    /\ act = "delete" => RunOps("create") \cup RunOps("update") = {}

C16_Witness ==
    /\ act = "deploy" /\ pc = "done" /\ result = "False" /\ faulted
    /\ Len(RunCalls) = 1 /\ polls = 0

\* the operation of the run failed
OperationFailed == result = "False" \/ (act = "list" /\ faulted)

\* C17: the exit code of a run is 1 when its operation failed and 0 when it
\* succeeded.
C17_ExitCode ==
    pc = "done" =>
        /\ OperationFailed => exitCode = 1
        /\ result = "True" => exitCode = 0

\* C18 (as stated): a delete request is issued only after the literal string
\* yes was read from standard input
C18_LiteralYes ==
    (act = "delete" /\ RunOps("delete") /= {}) => confirm = "yes"

\* C18 (amended): a delete request is issued only after an answer was read and
\* that answer is yes in any letter case; after any other answer the run has
\* issued no request, and the step that reads such an answer leaves every
\* stack as it was
C18_ConfirmGate ==
    /\ [](act = "delete" /\ RunOps("delete") /= {} => confirm \in {"yes", "YES"})
    /\ [](act = "delete" /\ confirm \notin {"none", "yes", "YES"} => RunCalls = <<>>)
    /\ [][(pc = "confirm" /\ confirm' \notin {"none", "yes", "YES"})
            => (pc' = "done" /\ status' = status /\ calls' = calls)]_vars

\* a deletion confirmed with YES has issued its request
C18_Witness ==
    act = "delete" /\ confirm = "YES" /\ RunOps("delete") /= {} /\ pc = "wait"

\* the operations whose handler ends in a bare raise
Reraising ==
    { "EC2Manager.create_instance",
      "lambda_function.process_s3_event",
      "DynamoDBManager.create_table",
      "DynamoDBManager.enable_streams",
      "VPCManager.create_vpc",
      "VPCManager.create_subnet",
      "VPCManager.create_internet_gateway",
      "VPCManager.create_nat_gateway",
      "VPCManager.create_route_table",
      "VPCManager.associate_route_table",
      "VPCManager.create_security_group",
      "IAMManager.create_user",
      "IAMManager.create_access_key",
      "IAMManager.create_group",
      "IAMManager.create_policy",
      "IAMManager.create_role",
      "MessagingManager.create_sqs_queue",
      "MessagingManager.send_message",
      "MessagingManager.create_sns_topic",
      "MessagingManager.subscribe_to_topic",
      "MessagingManager.publish_to_topic",
      "MessagingManager.create_fanout_architecture" }

\* the operations whose except clause names Exception and returns
CatchAllReturning ==
    { "lambda_function.write_to_dynamodb",
      "lambda_function.send_sns_notification",
      "AWSDeployer.validate_credentials",
      "AWSDeployer.deploy_cloudformation_stack",
      "AWSDeployer.delete_cloudformation_stack",
      "AWSDeployer.list_stacks" }

InFlightFor(n) ==
    {p \in Procs : procs[p].name = n /\ procs[p].pc = "wait" /\ status[n] \in InFlight}

\* the processes that issued create_stack for stack n
Creators(n) ==
    {p \in Procs : procs[p].name = n /\ procs[p].op = "deploy" /\ procs[p].req = "create"}

C21_FailedLookupNotAbsent ==
    (act = "deploy" /\ pre \notin Gone \cup {"none"}) => RunOps("create") = {}

\* the statuses of a stack that is present but not complete
NonComplete == Status \ (Gone \cup Complete)

\* C22: a Deploy that found its stack present in a non-complete status issues
\* update_stack and never create_stack
C22_PresentIsUpdated ==
    (act = "deploy" /\ pre \in NonComplete /\ PastRequest) =>
        (RunOps("create") = {} /\ RunOps("update") /= {})

\* C23: the step of deploy_cloudformation_stack that fails to read the template
\* ends the method with False; it issues no request, makes no lookup and no
\* poll, and leaves every stack as it was
C23_UnreadableTemplate ==
    [][(pc = "read_template" /\ pc' = "done") =>
          /\ result' = "False"
          /\ calls' = calls /\ status' = status
          /\ pre' = "none" /\ polls' = 0 /\ waiter' = "none"]_vars

\* a Deploy with valid credentials and no failing call ended at the template
C23_Witness ==
    /\ act = "deploy" /\ pc = "done" /\ result = "False"
    /\ ~faulted /\ pre = "none" /\ RunCalls = <<>>

\* C24: every invocation of lambda_handler ends with a response that has a
\* statusCode, after the handler dispatched to the processor the precedence
\* Records, httpMethod, source = aws.events picks; no exception leaves it
C24_DispatchAndRespond ==
    lam.pc = "done" =>
        /\ ~lam.raised
        /\ lam.code \in {StatusOk, StatusNotAllowed, StatusError}
        /\ lam.chosen = (IF lam.event.hasRecords THEN "process_s3_event"
                         ELSE IF lam.event.http /= "absent" THEN "process_api_gateway_event"
                         ELSE IF lam.event.source = "aws.events" THEN "process_eventbridge_event"
                         ELSE "generic")

\* C25: long_running_task returns at the first poll that sees less than the
\* safety margin, with one item processed for each earlier poll and completed
\* false; and a task that was started returns
C25_StopsAtMargin ==
    /\ [](task.pc = "done" =>
            /\ task.time_remaining < safety_margin
            /\ task.items_processed + 1 = task.polls
            /\ ~task.completed)
    /\ [](task.pc = "work" => task.time_remaining >= safety_margin)
    /\ [](task.pc = "poll" =>
            /\ task.items_processed = task.polls
            /\ task.polls > 0 => task.time_remaining >= safety_margin)
    /\ (task.pc \in {"poll", "work"} ~> task.pc = "done")

\* long_running_task returned after it processed as many items as it has time for
C25_Witness ==
    task.pc = "done" /\ task.items_processed = MaxItems /\ task.polls = MaxItems + 1

\* C26: stop_instance, start_instance and terminate_instance poll only after
\* their request was accepted and return True only after a poll saw the
\* instance stopped, running, terminated; create_instance tags the instance
\* only after a poll saw it running, and when its wait fails the instance
\* exists untagged and the caller gets an exception, not the instance id
C26_RequestThenWait ==
    /\ [](ec2.polls > 0 => ec2.requested)
    /\ [](ec2.pc = "done" /\ ec2.result = "True" =>
            ec2.seen = (CASE ec2.op = "stop_instance" -> "stopped"
                          [] ec2.op = "start_instance" -> "running"
                          [] ec2.op = "terminate_instance" -> "terminated"
                          [] OTHER -> "no such method"))
    /\ [][(~ec2.tagged /\ ec2'.tagged) =>
            (ec2.op = "create_instance" /\ ec2.seen = "running")]_vars
    /\ [](ec2.op = "create_instance" /\ ec2.pc = "done" /\ ec2.requested
             /\ ec2.seen /= "running" =>
            (ec2.state /= "none" /\ ~ec2.tagged /\ ec2.result = "WaiterError"))

\* create_instance with tags: the launch failed, the wait raised
C26_Witness ==
    /\ ec2.op = "create_instance" /\ ec2.wantTags /\ ec2.pc = "done"
    /\ ec2.seen = "terminated" /\ ec2.result = "WaiterError" /\ ~ec2.tagged

\* is none of the three targets given to add_route
NoTarget == ~vpc.gateway_id /\ ~vpc.nat_gateway_id /\ ~vpc.instance_id

\* the one target add_route is to send: gateway_id before nat_gateway_id before
\* instance_id
FirstTarget ==
    IF vpc.gateway_id THEN "GatewayId"
    ELSE IF vpc.nat_gateway_id THEN "NatGatewayId"
    ELSE "InstanceId"

\* C27 (as stated): add_route returns a boolean for every input; without a
\* target it sends no request and returns False, with several it sends the
\* first by precedence
C27_AlwaysBoolean ==
    (vpc.op = "add_route" /\ vpc.pc = "done" /\ vpc.err /= "BotoCoreError") =>
        /\ vpc.result \in {"True", "False"}
        /\ NoTarget => (vpc.sent = "none" /\ vpc.result = "False")
        /\ ~NoTarget => vpc.sent = FirstTarget

\* C27 (amended): without a target add_route sends no request and raises
\* ValueError; with one or more it sends exactly the first by precedence and
\* returns True when create_route answers, False when the service rejects it,
\* and lets any other SDK failure through
C27_BooleanOrValueError ==
    (vpc.op = "add_route" /\ vpc.pc = "done") =>
        /\ NoTarget => (vpc.sent = "none" /\ vpc.result = "ValueError")
        /\ ~NoTarget =>
             /\ vpc.sent = FirstTarget
             /\ vpc.result = (CASE vpc.err = "none" -> "True"
                                [] vpc.err = "ClientError" -> "False"
                                [] OTHER -> "BotoCoreError")

\* add_route was called without a target
C27_Witness ==
    vpc.op = "add_route" /\ vpc.pc = "done" /\ NoTarget /\ vpc.result = "ValueError"

\* C28: create_nat_gateway allocates the Elastic IP before it creates the NAT
\* gateway and nothing is ever released; a call that fails after the
\* allocation ends in an exception with the Elastic IP, and the NAT gateway if
\* it was created, still there
C28_ElasticIpLeak ==
    /\ [](vpc.nats - vpc.nats0 <= vpc.eips - vpc.eips0)
    /\ [][vpc'.eips >= vpc.eips /\ vpc'.nats >= vpc.nats]_vars
    /\ [](vpc.op = "create_nat_gateway" /\ vpc.pc = "done" /\ vpc.result /= "nat_gateway_id" =>
            /\ vpc.result \in {"ClientError", "BotoCoreError", "WaiterError"}
            /\ vpc.eips \in {vpc.eips0, vpc.eips0 + 1}
            /\ vpc.natState /= "none" => (vpc.eips = vpc.eips0 + 1 /\ vpc.nats = vpc.nats0 + 1)
            /\ vpc.polls > 0 => vpc.natState /= "none")

\* the NAT gateway failed to come up: the wait raised, the Elastic IP stays
C28_Witness ==
    /\ vpc.op = "create_nat_gateway" /\ vpc.pc = "done" /\ vpc.result = "WaiterError"
    /\ vpc.natState = "failed" /\ vpc.eips = vpc.eips0 + 1 /\ vpc.nats = vpc.nats0 + 1

\* the configuration steps the caller of create_bucket asked for, in the order
\* versioning, encryption, public access block
Requested ==
    (IF bucket.enable_versioning THEN <<"versioning">> ELSE <<>>)
    \o (IF bucket.enable_encryption THEN <<"encryption">> ELSE <<>>)
    \o (IF bucket.block_public_access THEN <<"public_access_block">> ELSE <<>>)

\* the steps applied so far are the first of the requested ones, in order
AppliedInOrder ==
    /\ Len(bucket.applied) <= Len(Requested)
    /\ bucket.applied = SubSeq(Requested, 1, Len(bucket.applied))

\* create_bucket returned True: the bucket is there with every requested step
TrueIsComplete ==
    (bucket.pc = "done" /\ bucket.result = "True") =>
        (bucket.exists /\ bucket.applied = Requested)

\* C29 (as stated): create_bucket returns True only with the bucket created
\* and every requested step applied in order; when a step fails it returns
\* False and the bucket is left with the steps applied until then
C29_FalseOnFailure ==
    /\ AppliedInOrder
    /\ TrueIsComplete
    /\ (bucket.pc = "done" /\ bucket.result /= "True") =>
          (bucket.result = "False" /\ (bucket.applied /= <<>> => bucket.exists))

\* C29 (amended): as stated, except that a failing step makes create_bucket
\* return False only when the service rejected the call; any other SDK
\* failure leaves the method as an exception; either way the bucket is left
\* with the steps applied until then
C29_PartialConfiguration ==
    /\ AppliedInOrder
    /\ TrueIsComplete
    /\ (bucket.pc = "done" /\ bucket.result /= "True") =>
          /\ bucket.result = (IF bucket.err = "ClientError" THEN "False" ELSE "BotoCoreError")
          /\ bucket.applied /= <<>> => bucket.exists

\* the bucket exists, block_public_access was requested and not applied, and
\* the caller got False
C29_Witness ==
    /\ bucket.pc = "done" /\ bucket.result = "False" /\ bucket.exists
    /\ bucket.block_public_access /\ bucket.applied = <<"encryption">>

\* the calls create_fanout_architecture is to make for its queue names: the
\* topic, then for each queue in list order create, read the ARN, set the
\* policy, subscribe
Plan ==
    LET order == <<"create_queue", "get_queue_attributes", "set_queue_attributes",
                   "subscribe">>
    IN  [i \in 1..(1 + Len(order) * Len(fan.queue_names)) |->
            IF i = 1 THEN <<"create_topic", "topic">>
            ELSE <<order[((i - 2) % Len(order)) + 1],
                   fan.queue_names[((i - 2) \div Len(order)) + 1]>>]

\* the subscriptions made so far, as the queues they are for
Subscribed == SelectSeq(fan.log, LAMBDA c : c[1] = "subscribe")

\* C30: the calls that succeeded are at every moment the first calls of the
\* plan, and none is undone; on success all of the plan was made, the result
\* holds the ARN of each queue name in input order and one subscription was
\* made for each; on a failure the exception reaches the caller
C30_FanoutOrder ==
    /\ [](/\ Len(fan.log) <= Len(Plan)
          /\ fan.log = SubSeq(Plan, 1, Len(fan.log)))
    /\ [][/\ Len(fan'.log) >= Len(fan.log)
          /\ SubSeq(fan'.log, 1, Len(fan.log)) = fan.log]_vars
    /\ [](fan.pc = "done" /\ fan.result = "dict" =>
            /\ fan.log = Plan
            /\ fan.queue_arns = fan.queue_names
            /\ Len(Subscribed) = Len(fan.queue_names)
            /\ \A i \in 1..Len(Subscribed) : Subscribed[i][2] = fan.queue_names[i])
    /\ [](fan.pc = "done" /\ fan.result /= "dict" =>
            /\ fan.result \in {"ClientError", "BotoCoreError"}
            /\ fan.log /= Plan)

\* the second queue's policy was rejected: the topic, the first queue with its
\* subscription and the second queue remain, the second is not subscribed
C30_Witness ==
    /\ fan.pc = "done" /\ fan.result = "ClientError"
    /\ fan.queue_names = <<"orders", "billing">>
    /\ Subscribed = <<<<"subscribe", "orders">>>>
    /\ fan.log[Len(fan.log)] = <<"get_queue_attributes", "billing">>

====
